---------------------------- MODULE Spec2Model ----------------------------
(***************************************************************************)
(* Model of notebooks/spark_basics/structured_streaming.ipynb: a notebook  *)
(* whose code cells build a SparkContext, a StreamingContext with a batch  *)
(* interval of 5 seconds, a DStream graph                                  *)
(*   socketTextStream -> flatMap(split " ") -> map((w, 1))                 *)
(*                    -> reduceByKey(+) -> pprint()                        *)
(* and then call start() and awaitTermination(20), twice.                  *)
(*                                                                         *)
(* A line of text is a sequence of one-character strings, a word is a      *)
(* sequence of characters, a batch result (an RDD of pairs, whose order is *)
(* not specified) is a set of <<word, count>> pairs.                       *)
(***************************************************************************)
EXTENDS Integers, Sequences, FiniteSets, TLC

VARIABLES
    \* the notebook kernel
    pc,             \* index of the next code cell to run (1..7), 8 = past the last
    kernel,         \* "idle" | "awaiting" (blocked in awaitTermination) | "halted"
    errors,         \* number of cells that raised an error
    \* the engine objects the cells create
    sc,             \* master of the SparkContext, "none" before cell 1
    sscState,       \* "NONE" | "INITIALIZED" | "ACTIVE" | "STOPPED"
    graph,          \* the operations registered on the context, in order
    startCalls,     \* how many times ssc.start() was invoked
    startsOnActive, \* how many of them found the context already started
    deadline,       \* when the pending awaitTermination times out
    awaitLog,       \* one record per awaitTermination that returned
    \* the running computation
    now,            \* seconds since the context was started
    receiver,       \* "none" | "pending" | "running"
    busyThreads,    \* worker threads occupied by long-running tasks
    received,       \* every line the receiver got: [line, window]
    buffer,         \* indices (into received) of the lines of the open window
    jobs,           \* generated batches waiting for their output job
    printed,        \* what pprint wrote, one record per batch job run
    \* the DStream graph applied to batches handed in directly
    fnHistory,      \* the batches already processed, each a sequence of lines
    fnBuffer,       \* lines of the batch being collected
    fnCounts,       \* wordCounts of the last processed batch
    fnOut           \* what pprint wrote for the last processed batch

vars == <<pc, kernel, errors, sc, sscState, graph, startCalls, startsOnActive,
          deadline, awaitLog, now, receiver, busyThreads, received, buffer,
          jobs, printed, fnHistory, fnBuffer, fnCounts, fnOut>>

nbVars == <<pc, kernel, errors, sc, sscState, graph, startCalls, startsOnActive,
            deadline, awaitLog, now, receiver, busyThreads, received, buffer,
            jobs, printed>>

fnVars == <<fnHistory, fnBuffer, fnCounts, fnOut>>

---------------------------------------------------------------------------
(* Bounds of the model *)

MaxTime == 45
MaxLines == 2
MaxLineLen == 3
MaxFnLines == 2
MaxFnBatches == 2

(* Constants of the notebook *)

BatchInterval == 5
AwaitTimeout == 20
PprintNum == 10

LastCell == 7
Done == LastCell + 1

Min(a, b) == IF a < b THEN a ELSE b

---------------------------------------------------------------------------
(* Text *)

Space == " "
Tab == "\t"

Apache == <<"a", "p", "a", "c", "h", "e">>
SparkW == <<"s", "p", "a", "r", "k">>
Hadoop == <<"h", "a", "d", "o", "o", "p">>

ApacheSpark == Apache \o <<Space>> \o SparkW
ApacheHadoop == Apache \o <<Space>> \o Hadoop

\* the lines typed into the netcat terminal
NetcatLines == {ApacheSpark, ApacheHadoop}

\* a line of ten different words
TenWords == <<"b", Space, "c", Space, "d", Space, "e", Space, "f", Space, "g",
              Space, "h", Space, "i", Space, "j", Space, "k">>

\* a line with a repeated word
RepeatLine == <<"a", Space, "a", Space, "b">>

\* a line with tabs: "\ta \t"
TabLine == <<Tab, "a", Space, Tab>>

FnChars == {"a", Space}

SeqsUpTo(S, n) == UNION {[1..k -> S] : k \in 0..n}

\* the lines handed to the DStream graph: every short text, a repeated
\* word, tabs
FnLines == SeqsUpTo(FnChars, MaxLineLen) \cup {RepeatLine, TabLine}

\* the lines handed to the DStream graph to fill a batch with more words
\* than pprint shows
ManyWordLines == {<<>>, <<"a">>, <<Space>>, TabLine, TenWords}

RECURSIVE Flatten(_)
Flatten(batches) ==
    IF batches = <<>> THEN <<>> ELSE Head(batches) \o Flatten(Tail(batches))

---------------------------------------------------------------------------
(* The DStream graph of cell 3 *)

Separator == Space

RECURSIVE SplitAcc(_, _, _)
SplitAcc(rest, cur, acc) ==
    IF rest = <<>> THEN Append(acc, cur)
    ELSE IF Head(rest) = Separator
         THEN SplitAcc(Tail(rest), <<>>, Append(acc, cur))
         ELSE SplitAcc(Tail(rest), Append(cur, Head(rest)), acc)

RECURSIVE SplitWsAcc(_, _, _)
SplitWsAcc(rest, cur, acc) ==
    LET flush == IF cur = <<>> THEN acc ELSE Append(acc, cur)
    IN  IF rest = <<>> THEN flush
        ELSE IF Head(rest) \in {Space, Tab}
             THEN SplitWsAcc(Tail(rest), <<>>, flush)
             ELSE SplitWsAcc(Tail(rest), Append(cur, Head(rest)), acc)

\* line.split(): runs of whitespace separate, no empty words
SplitWhitespace(line) == SplitWsAcc(line, <<>>, <<>>)

\* line.split(" ")
Split(line) == SplitAcc(line, <<>>, <<>>)

RECURSIVE FlatMapSplit(_)
\* words = lines.flatMap(lambda line: line.split(" "))
FlatMapSplit(lines) ==
    IF lines = <<>> THEN <<>>
    ELSE Split(Head(lines)) \o FlatMapSplit(Tail(lines))

\* pairs = words.map(lambda word: (word, 1))
MapPairs(words) == [i \in 1..Len(words) |-> <<words[i], 1>>]

\* lambda x, y: x
KeepLeft(x, y) == x

\* lambda x, y: x + y
Reducer(x, y) == x + y

RECURSIVE ReduceAcc(_, _)
ReduceAcc(pairs, acc) ==
    IF pairs = <<>> THEN acc
    ELSE LET k == Head(pairs)[1]
             v == Head(pairs)[2]
         IN  ReduceAcc(Tail(pairs),
                       IF k \in DOMAIN acc
                       THEN [acc EXCEPT ![k] = Reducer(@, v)]
                       ELSE acc @@ (k :> v))

\* pairs.reduceByKey(lambda x, y: x + y)
ReduceByKey(pairs) ==
    LET acc == ReduceAcc(pairs, [k \in {} |-> 0])
    IN  {<<k, acc[k]>> : k \in DOMAIN acc}

\* a stateful count would be computed from every line so far
RunningInput(earlier, current) == earlier \o current

\* the lines a batch of the DStream is computed from: those of its own
\* interval (earlier holds the lines of the batches before it)
BatchInput(earlier, current) == current

\* wordCounts for one batch
WordCounts(lines) == ReduceByKey(MapPairs(FlatMapSplit(lines)))

\* pprint without a limit
ShowAll(n) == n

\* how many elements pprint() shows
PprintShown(n) == Min(PprintNum, n)

\* wordCounts.pprint(): the timestamp header, the first elements of the
\* batch's RDD (which ones come first is up to the engine) and "..." when
\* elements are left
Pprint(time, rdd) ==
    {[time |-> time, pairs |-> S, more |-> Cardinality(rdd) > Cardinality(S)] :
        S \in {T \in SUBSET rdd : Cardinality(T) = PprintShown(Cardinality(rdd))}}

---------------------------------------------------------------------------
(* The engine objects *)

\* worker threads of a local master: 'local' runs one, 'local[2]' (the two
\* working threads the comment of cell 2 speaks of) two
NumThreads(master) ==
    CASE master = "local" -> 1
      [] master = "local[2]" -> 2
      [] OTHER -> 0

\* sc = SparkContext('local')
Master == "local"

\* the operations cell 3 registers
GraphOps == <<"socketTextStream", "flatMap", "map", "reduceByKey", "pprint">>

\* an awaitTermination that stopped the context when its timeout ran out
AwaitStops(state) == "STOPPED"

\* state of the context when awaitTermination(timeout) returns by timeout
AwaitOutcome(state) == state

\* the batch a line received at time t belongs to
Window(t) == ((t \div BatchInterval) + 1) * BatchInterval

LinesOf(ids) == [i \in 1..Len(ids) |-> received[ids[i]].line]

---------------------------------------------------------------------------
Init ==
    /\ pc = 1
    /\ kernel = "idle"
    /\ errors = 0
    /\ sc = "none"
    /\ sscState = "NONE"
    /\ graph = <<>>
    /\ startCalls = 0
    /\ startsOnActive = 0
    /\ deadline = 0
    /\ awaitLog = <<>>
    /\ now = 0
    /\ receiver = "none"
    /\ busyThreads = 0
    /\ received = <<>>
    /\ buffer = <<>>
    /\ jobs = <<>>
    /\ printed = <<>>
    /\ fnHistory = <<>>
    /\ fnBuffer = <<>>
    /\ fnCounts = {}
    /\ fnOut = [time |-> 0, pairs |-> {}, more |-> FALSE]

\* cell 1: sc = SparkContext('local')
CreateSparkContext ==
    /\ pc = 1 /\ kernel = "idle"
    /\ sc' = Master
    /\ pc' = 2
    /\ UNCHANGED <<kernel, errors, sscState, graph, startCalls, startsOnActive,
                   deadline, awaitLog, now, receiver, busyThreads, received,
                   buffer, jobs, printed>>
    /\ UNCHANGED fnVars

\* cell 2: ssc = StreamingContext(sc, 5)
CreateStreamingContext ==
    /\ pc = 2 /\ kernel = "idle"
    /\ sscState' = "INITIALIZED"
    /\ pc' = 3
    /\ UNCHANGED <<kernel, errors, sc, graph, startCalls, startsOnActive,
                   deadline, awaitLog, now, receiver, busyThreads, received,
                   buffer, jobs, printed>>
    /\ UNCHANGED fnVars

\* cell 3: socketTextStream, flatMap, map, reduceByKey, pprint
BuildGraph ==
    /\ pc = 3 /\ kernel = "idle"
    /\ graph' = graph \o GraphOps
    /\ pc' = 4
    /\ UNCHANGED <<kernel, errors, sc, sscState, startCalls, startsOnActive,
                   deadline, awaitLog, now, receiver, busyThreads, received,
                   buffer, jobs, printed>>
    /\ UNCHANGED fnVars

\* cells 4 and 7: ssc.start(); ssc.awaitTermination(20)
\* start() on an active context only logs a warning
StartCell ==
    /\ pc \in {4, 7} /\ kernel = "idle"
    /\ startCalls' = startCalls + 1
    /\ IF sscState = "INITIALIZED"
       THEN /\ sscState' = "ACTIVE"
            /\ receiver' = IF "socketTextStream" \in {graph[i] : i \in DOMAIN graph}
                           THEN "pending" ELSE receiver
            /\ UNCHANGED startsOnActive
       ELSE /\ startsOnActive' = startsOnActive + 1
            /\ UNCHANGED <<sscState, receiver>>
    /\ kernel' = "awaiting"
    /\ deadline' = now + AwaitTimeout
    /\ UNCHANGED <<pc, errors, sc, graph, awaitLog, now, busyThreads, received,
                   buffer, jobs, printed>>
    /\ UNCHANGED fnVars

\* awaitTermination(20) returns: nothing stopped the context, the timeout ran out
AwaitReturn ==
    /\ kernel = "awaiting"
    /\ now >= deadline
    /\ kernel' = "idle"
    /\ sscState' = AwaitOutcome(sscState)
    /\ awaitLog' = Append(awaitLog, [called |-> deadline - AwaitTimeout,
                                      returned |-> now,
                                      state |-> AwaitOutcome(sscState)])
    /\ pc' = pc + 1
    /\ UNCHANGED <<errors, sc, graph, startCalls, startsOnActive, deadline, now,
                   receiver, busyThreads, received, buffer, jobs, printed>>
    /\ UNCHANGED fnVars

\* cells 5 and 6 hold the terminal session "$ nc -lk 9999": as Python they
\* raise a SyntaxError; "Run All" stops there, a cell-by-cell run goes on
NetcatCell ==
    /\ pc \in {5, 6} /\ kernel = "idle"
    /\ errors' = errors + 1
    /\ \E runAll \in BOOLEAN :
          IF runAll THEN kernel' = "halted" /\ pc' = pc
                    ELSE kernel' = kernel /\ pc' = pc + 1
    /\ UNCHANGED <<sc, sscState, graph, startCalls, startsOnActive, deadline,
                   awaitLog, now, receiver, busyThreads, received, buffer, jobs,
                   printed>>
    /\ UNCHANGED fnVars

\* the receiver of socketTextStream is a long-running task: once scheduled
\* it keeps its worker thread
ReceiverStart ==
    /\ receiver = "pending"
    /\ busyThreads < NumThreads(sc)
    /\ receiver' = "running"
    /\ busyThreads' = busyThreads + 1
    /\ UNCHANGED <<pc, kernel, errors, sc, sscState, graph, startCalls,
                   startsOnActive, deadline, awaitLog, now, received, buffer,
                   jobs, printed>>
    /\ UNCHANGED fnVars

\* a line typed into netcat reaches the receiver
Receive(line) ==
    /\ receiver = "running"
    /\ sscState = "ACTIVE"
    /\ Len(received) < MaxLines
    /\ received' = Append(received, [line |-> line, window |-> Window(now)])
    /\ buffer' = Append(buffer, Len(received) + 1)
    /\ UNCHANGED <<pc, kernel, errors, sc, sscState, graph, startCalls,
                   startsOnActive, deadline, awaitLog, now, receiver,
                   busyThreads, jobs, printed>>
    /\ UNCHANGED fnVars

\* a second passes; every BatchInterval seconds the lines of the window
\* that closes become a batch, whose output job is queued.  Cells run back
\* to back: time passes while the kernel is blocked, halted or finished.
Tick ==
    /\ sscState = "ACTIVE"
    /\ now < MaxTime
    /\ kernel # "idle" \/ pc = Done
    /\ ~(kernel = "awaiting" /\ now >= deadline)
    /\ now' = now + 1
    /\ IF (now + 1) % BatchInterval = 0
       THEN /\ jobs' = Append(jobs, [time |-> now + 1, ids |-> buffer])
            /\ buffer' = <<>>
       ELSE UNCHANGED <<jobs, buffer>>
    /\ UNCHANGED <<pc, kernel, errors, sc, sscState, graph, startCalls,
                   startsOnActive, deadline, awaitLog, receiver, busyThreads,
                   received, printed>>
    /\ UNCHANGED fnVars

\* the output job of the oldest waiting batch runs on a free worker thread
RunJob ==
    /\ jobs # <<>>
    /\ busyThreads < NumThreads(sc)
    /\ LET job == Head(jobs)
           rdd == WordCounts(BatchInput(<<>>, LinesOf(job.ids)))
       IN  \E out \in Pprint(job.time, rdd) :
              printed' = Append(printed, [time |-> out.time, pairs |-> out.pairs,
                                          more |-> out.more, ids |-> job.ids])
    /\ jobs' = Tail(jobs)
    /\ UNCHANGED <<pc, kernel, errors, sc, sscState, graph, startCalls,
                   startsOnActive, deadline, awaitLog, now, receiver,
                   busyThreads, received, buffer>>
    /\ UNCHANGED fnVars

\* a line joins the batch being collected
FnReceive(line) ==
    /\ Len(fnHistory) < MaxFnBatches
    /\ Len(Flatten(fnHistory)) + Len(fnBuffer) < MaxFnLines
    /\ fnBuffer' = Append(fnBuffer, line)
    /\ UNCHANGED <<fnHistory, fnCounts, fnOut>>
    /\ UNCHANGED nbVars

\* the batch interval ends: the graph of cell 3 runs on the collected batch
FnBatch ==
    /\ Len(fnHistory) < MaxFnBatches
    /\ LET rdd == WordCounts(BatchInput(Flatten(fnHistory), fnBuffer))
       IN  /\ fnCounts' = rdd
           /\ \E out \in Pprint((Len(fnHistory) + 1) * BatchInterval, rdd) :
                  fnOut' = out
    /\ fnHistory' = Append(fnHistory, fnBuffer)
    /\ fnBuffer' = <<>>
    /\ UNCHANGED nbVars

NextPipeline ==
    \/ \E line \in FnLines : FnReceive(line)
    \/ FnBatch

PipelineSpec == Init /\ [][NextPipeline]_vars

NextManyWords ==
    \/ \E line \in ManyWordLines : FnReceive(line)
    \/ FnBatch

ManyWordsSpec == Init /\ [][NextManyWords]_vars

Next ==
    \/ CreateSparkContext
    \/ CreateStreamingContext
    \/ BuildGraph
    \/ StartCell
    \/ AwaitReturn
    \/ NetcatCell
    \/ ReceiverStart
    \/ \E line \in NetcatLines : Receive(line)
    \/ Tick
    \/ RunJob

Spec == Init /\ [][Next]_vars

\* The engine's batch timer keeps firing, its scheduler runs a waiting task
\* or job whenever a worker thread is free, a timed wait returns, and the
\* kernel runs the next cell of the run.
FairSpec ==
    /\ Spec
    /\ WF_vars(Tick)
    /\ WF_vars(RunJob)
    /\ WF_vars(ReceiverStart)
    /\ WF_vars(AwaitReturn)
    /\ WF_vars(NetcatCell)
    /\ WF_vars(StartCell)
    /\ WF_vars(CreateSparkContext)
    /\ WF_vars(CreateStreamingContext)
    /\ WF_vars(BuildGraph)

---------------------------------------------------------------------------
(* Helpers of the properties *)

Range(f) == {f[i] : i \in DOMAIN f}

\* occurrences of word w in a sequence of words
Occ(w, words) == Cardinality({i \in 1..Len(words) : words[i] = w})

NumSpaces(line) == Cardinality({i \in 1..Len(line) : line[i] = Space})

RECURSIVE Join(_)
\* " ".join(words)
Join(words) ==
    IF Len(words) = 0 THEN <<>>
    ELSE IF Len(words) = 1 THEN words[1]
    ELSE words[1] \o <<Space>> \o Join(Tail(words))

RECURSIVE SumCounts(_)
SumCounts(rdd) ==
    IF rdd = {} THEN 0
    ELSE LET p == CHOOSE q \in rdd : TRUE IN p[2] + SumCounts(rdd \ {p})

\* the batch the DStream graph ran on last, and its words
FnLast == fnHistory[Len(fnHistory)]
FnLastWords == FlatMapSplit(FnLast)
FnAllWords == FlatMapSplit(Flatten(fnHistory))

BatchTimes == {k * BatchInterval : k \in 1..(MaxTime \div BatchInterval)}

PrintedAt(t) == {p \in DOMAIN printed : printed[p].time = t}

\* the netcat session of cell 6 has been received, in two windows that have closed
C1_Scenario ==
    /\ Len(received) = 2
    /\ received[1].line = ApacheSpark
    /\ received[2].line = ApacheHadoop
    /\ received[1].window < received[2].window
    /\ now >= received[2].window

\* the recorded output of cell 7
C1_Shown ==
    /\ Len(received) = 2
    /\ \E p, q \in DOMAIN printed :
          /\ p < q
          /\ printed[p].time = received[1].window
          /\ printed[p].pairs = {<<Apache, 1>>, <<SparkW, 1>>}
          /\ printed[q].time = received[2].window
          /\ printed[q].pairs = {<<Apache, 1>>, <<Hadoop, 1>>}
          /\ \A r \in DOMAIN printed \ {p, q} : printed[r].pairs = {}

\* printed batches carry the timestamps 5, 10, 15, ... in order
C3_Timestamps ==
    /\ (sscState # "ACTIVE" => printed = <<>>)
    /\ \A p \in DOMAIN printed : printed[p].time = p * 5

\* the printed batches that include received line n
C5_PrintedWith(n) == {p \in DOMAIN printed : n \in Range(printed[p].ids)}

\* the lines that have an empty piece between, before or after spaces
C9_YieldsEmptyWord(line) ==
    \/ line = <<>>
    \/ line[1] = Space
    \/ line[Len(line)] = Space
    \/ \E i \in 1..(Len(line) - 1) : line[i] = Space /\ line[i + 1] = Space

---------------------------------------------------------------------------
(* C1: when "apache spark" is received in one batch window and "apache     *)
(* hadoop" in a later one, and nothing else is sent, the printed output    *)
(* comes to show ('apache', 1), ('spark', 1) in one batch and              *)
(* ('apache', 1), ('hadoop', 1) in a later batch, every other batch        *)
(* printing no pairs.                                                      *)
C1_ExampleOutput == C1_Scenario ~> (C1_Shown \/ Len(received) > 2)

C3_Cadence ==
    /\ [] C3_Timestamps
    /\ \A t \in BatchTimes : (now >= t) ~> (Cardinality(PrintedAt(t)) = 1)

(* C4 as stated: once awaitTermination(20) has timed out the computation   *)
(* is stopped: no batch is generated or printed after the 20 seconds, at   *)
(* most 20/5 = 4 batches per run.                                          *)
C4_StoppedAtTimeout ==
    awaitLog # <<>> =>
        /\ sscState = "STOPPED"
        /\ \A j \in DOMAIN jobs : jobs[j].time <= awaitLog[1].called + 20
        /\ \A p \in DOMAIN printed : printed[p].time <= awaitLog[1].called + 20
        /\ Len(jobs) + Len(printed) <= 4

(* C4 as amended: awaitTermination(20) blocks the cell for 20 seconds and  *)
(* returns; it does not stop the computation: the context is still active  *)
(* afterwards and a batch goes on being generated every 5 seconds.         *)
C4_AwaitOnlyWaits ==
    /\ (kernel = "awaiting" => now <= deadline /\ deadline - now <= 20)
    /\ \A i \in DOMAIN awaitLog :
          /\ awaitLog[i].returned = awaitLog[i].called + 20
          /\ awaitLog[i].state = "ACTIVE"
    /\ (awaitLog # <<>> => sscState = "ACTIVE")
    /\ Len(jobs) + Len(printed) = now \div 5

C4_Witness ==
    /\ awaitLog # <<>>
    /\ \E j \in DOMAIN jobs : jobs[j].time > awaitLog[1].returned
    /\ Len(jobs) + Len(printed) > 4

(* C5: every line received while the computation runs is eventually        *)
(* included in the counts of exactly one printed batch: none is lost,      *)
(* none is counted in two batches.                                         *)
C5_ExactlyOnce ==
    /\ [] (\A n \in DOMAIN received : Cardinality(C5_PrintedWith(n)) <= 1)
    /\ \A n \in 1..MaxLines :
          (Len(received) >= n /\ now >= received[n].window)
              ~> (Cardinality(C5_PrintedWith(n)) = 1)

(* C6: the context has two worker threads, so that while the receiver      *)
(* occupies one, another is always available to run the batches.           *)
C6_TwoThreads ==
    /\ (sc # "none" => NumThreads(sc) = 2)
    /\ (receiver = "running" => busyThreads < NumThreads(sc))

C8_FirstTen ==
    Len(fnHistory) > 0 =>
        /\ fnOut.pairs \subseteq fnCounts
        /\ Cardinality(fnOut.pairs) =
              (IF Cardinality(fnCounts) < 10 THEN Cardinality(fnCounts) ELSE 10)
        /\ (Cardinality(fnCounts) > 10 <=> fnCounts \ fnOut.pairs # {})
        /\ fnOut.more = (Cardinality(fnCounts) > 10)

C8_Witness ==
    /\ Len(fnHistory) > 0
    /\ Cardinality(fnCounts) > 10
    /\ Cardinality(fnOut.pairs) = 10
    /\ fnCounts \ fnOut.pairs # {}

(* C9: a line is split at every single space and nowhere else: a line with *)
(* k spaces yields k+1 words that, joined by spaces, give the line back;   *)
(* an empty line, a leading or trailing space and two spaces in a row      *)
(* yield the empty word, counted under the key '' like any other; a tab    *)
(* separates nothing.                                                      *)
C9_SplitAtSpaces ==
    Len(fnHistory) > 0 =>
        /\ \A i \in DOMAIN FnLast :
              LET line == FnLast[i]
                  words == Split(line)
              IN  /\ Len(words) = NumSpaces(line) + 1
                  /\ Join(words) = line
                  /\ \A j \in DOMAIN words : Space \notin Range(words[j])
        /\ Len(FnLastWords) = Len(FnLast) + NumSpaces(Flatten(FnLast))
        /\ ((\E i \in DOMAIN FnLast : C9_YieldsEmptyWord(FnLast[i]))
              <=> (\E p \in fnCounts : p[1] = <<>> /\ p[2] >= 1))
        /\ SumCounts(fnCounts) = Len(FnLast) + NumSpaces(Flatten(FnLast))

C9_Witness ==
    /\ Len(fnHistory) > 0
    /\ \E i \in DOMAIN FnLast : FnLast[i] = <<Space, Space>>
    /\ \E i \in DOMAIN FnLast : FnLast[i] = TabLine
    /\ <<<<>>, 3>> \in fnCounts
    /\ <<<<Tab, "a">>, 1>> \in fnCounts
    /\ <<<<Tab>>, 1>> \in fnCounts

(* C10: over a top-to-bottom run of the code cells the context is created, *)
(* gets its stream and output operation, is started and awaited exactly    *)
(* once: everything is registered before start(), no batch is printed      *)
(* before start(), and start() is never invoked on a started context.      *)
C10_Lifecycle ==
    /\ (startCalls > 0 => graph = GraphOps)
    /\ (startCalls = 0 => printed = <<>> /\ jobs = <<>>)
    /\ startsOnActive = 0
    /\ startCalls <= 1
    /\ Len(awaitLog) <= 1

=============================================================================
